---- MODULE Spec2Model ----
(***************************************************************************)
(* A model of nmtlab's TrainerKit (src/nmtlab/trainers/base.py): the       *)
(* orchestration state of one trainer, its operations, and the pure        *)
(* helpers they use.                                                       *)
(*                                                                         *)
(* Numbers.  Scores (loss, negated BLEU, best_criteria) are reals in the   *)
(* code; here they are integers, and the relative threshold of             *)
(* check_improvement, best - abs(best) * 0.001, is compared after          *)
(* multiplying both sides by 1000, which is exact.                         *)
(*                                                                         *)
(* Collaborators.  The model, the optimizer, the dataset and the scheduler *)
(* are outside src/.  The model's parameters and the optimizer's state are *)
(* each a version counter that train() advances, and the optimizer holds   *)
(* the learning rate besides; the scheduler is any scheduler: a finished   *)
(* flag that its callbacks may set either way, and an after_valid that may *)
(* call the trainer's set_learning_rate.                                   *)
(* Wall-clock time (_begin_time, epoch_time) and the console are left out. *)
(***************************************************************************)
EXTENDS Integers, Sequences, FiniteSets, TLC

VARIABLES
    (* ---- one single-device TrainerKit ---- *)
    n_train_batch,      \* self._n_train_batch
    save_path,          \* self._save_path
    clip_norm,          \* self._clip_norm
    n_valid_per_epoch,  \* self._n_valid_per_epoch
    criteria,           \* self._criteria
    valid_freq,         \* self._valid_freq
    best_criteria,      \* self._best_criteria
    current_epoch,      \* self._current_epoch
    current_step,       \* self._current_step
    log_lines,          \* self._log_lines
    model_state,        \* self._model's parameters (a version)
    optimizer_state,    \* self._optimizer's state (a version)
    learning_rate,      \* param_groups[..]["lr"] of self._optimizer
    model_training,     \* the model's train/eval mode
    files,              \* the checkpoint files on disk, by path
    sidecars,           \* the ".log" files on disk, by path
    sched_finished,     \* the bound scheduler's finished flag
    error,              \* the exception that ended the process, or NoError
    call,               \* the last operation called: its name, result and calls made
    save_calls,         \* by path, the arguments and snapshots of the last save() to it
    (* ---- one call of _compute_bleu(sampled_tokens, tgt_seq) ---- *)
    bleu_pc,            \* "off", or the position: "for", "row", "score", "mean", "done"
    bleu_rows,          \* the rows of the batch not read yet (tgt_seq.shape[0] - i)
    cur_tgt,            \* tgt_seq[i], the row being read
    cur_sampled,        \* sampled_tokens[i]
    bleus,              \* the list bleus
    bleu_last,          \* what the last iteration did: its branch, out_tokens, ref_tokens
    bleu_ret,           \* the value returned: the sum and the count of the mean
    (* ---- the participants of a multi-device run, by rank ---- *)
    local_rank,         \* hvd.local_rank() of each participant
    p_valid_freq,       \* self._valid_freq, configured alike on all participants
    p_step,             \* self._current_step of each participant
    p_lr,               \* param_groups[..]["lr"] of each participant's optimizer
    p_sched_finished,   \* each participant's own scheduler's finished flag
    p_pc,               \* "idle", or the collective the participant is blocked in
    p_call,             \* each participant's last operation: name, result, calls made
    (* ---- the gradients of one train(batch) ---- *)
    train_pc,           \* "idle", or the position in train(): "backward", "step"
    grads,              \* p.grad of each of the model's parameters
    (* ---- a training script run by every participant alike ---- *)
    script,             \* the calls of the script, in order
    p_pos,              \* how many of them each participant has made
    (* ---- one valid() followed step by step ---- *)
    valid_pc,           \* "idle", or the statement of valid() to run next
    valid_locals,       \* the locals score_map and is_improved, once assigned
    after_valid_args    \* the calls of scheduler.after_valid made by this valid()

(* ------------------------------------------------------------------ *)
(* Bounds of the model                                                  *)
(* ------------------------------------------------------------------ *)
MaxEpoch == 1
MaxStep == 2
MaxUpdates == 1
MaxNewLines == 1
MaxBatch == 2
TgtLen == 4
SampledLen == 3
NProcs == 2
NParams == 2
MaxCalls == 3

(* ------------------------------------------------------------------ *)
(* Program constants                                                    *)
(* ------------------------------------------------------------------ *)
ROOT_RANK == 0
InitBestCriteria == 65535
DefaultClipNorm == 5
DefaultNValidPerEpoch == 10
DefaultCriteria == "bleu"
EOS == 2
ParamSyncPeriod == 30
\* _clip_grad_norm(): the 1e-6 added to the norm, as its inverse
InvEps == 1000000
\* Learning rates are Python floats (doubles), here whole numbers; the values a
\* float32 can hold are the multiples of Float32Ulp.
Float32Ulp == 4
LearningRates == {4, 5}
InitLearningRate == 5

None == "None"
NoError == "NoError"
\* A path with no file holds <<>>; a file holds <<content>>.
NoFile == <<>>
File(content) == <<content>>
Content(file) == file[1]
\* Python's True and False as results
PyBool(b) == IF b THEN "True" ELSE "False"

(* ------------------------------------------------------------------ *)
(* Input sets                                                           *)
(* ------------------------------------------------------------------ *)
Paths == {"a", "b"}
TrainBatchCounts == {7, 20}
Criterias == {"bleu", "loss"}
\* Scores around the relative threshold of check_improvement, on both sides of 0
FineScores == {-1002, -1001, -1000, 0, 999, 1000}
FineScoreMaps == [Criterias -> FineScores]
\* and a coarser set for the runs that exercise every operation
Scores == {-1000, 0}
ScoreMaps == [Criterias -> Scores]
\* configure(save_path, clip_norm, n_valid_per_epoch, criteria): the defaults, two
\* other settings, and one with a criteria configure() rejects
ConfigInputs ==
    { <<None, DefaultClipNorm, DefaultNValidPerEpoch, DefaultCriteria>>,
      <<"a", DefaultClipNorm, 2, "loss">>,
      <<"a", 0, DefaultNValidPerEpoch, "bleu">>,
      <<"a", DefaultClipNorm, 2, "acc">> }
\* save(epoch, step): the ends of the ranges of both counters
SaveEpochs == {0, MaxEpoch}
SaveSteps == {0, MaxStep}

(* ------------------------------------------------------------------ *)
(* Python arithmetic                                                    *)
(* ------------------------------------------------------------------ *)
Abs(x) == IF x < 0 THEN -x ELSE x

\* int(a / b) under true division: the quotient truncated towards zero (b # 0).
IntTrueDiv(a, b) ==
    IF (a >= 0) = (b > 0) THEN Abs(a) \div Abs(b) ELSE -(Abs(a) \div Abs(b))

\* a % b in Python: the result has the sign of b (b # 0).
PyMod(a, b) == IF b > 0 THEN a % b ELSE -((-a) % (-b))

(* ------------------------------------------------------------------ *)
(* Helpers of the operations                                            *)
(* ------------------------------------------------------------------ *)
\* (mutant) the frequency is computed before the new n_valid_per_epoch is stored
ValidFreq_stale(n_batch, n_valid) == IntTrueDiv(n_batch, n_valid_per_epoch)

\* configure(): self._valid_freq = int(self._n_train_batch / self._n_valid_per_epoch)
ValidFreq(n_batch, n_valid) == IntTrueDiv(n_batch, n_valid)

\* (mutant) the step itself, not the step + 1, is tested
ValidTriggers_step(step, freq) == PyMod(step, freq) = 0

\* valid(): (self._current_step + 1) % self._valid_freq == 0
ValidTriggers(step, freq) == PyMod(step + 1, freq) = 0

\* (mutant) any smaller value counts, without the relative threshold
Improves_any(cri, best) == cri < best

\* (mutant) the magnitudes are compared, not the signed values
Improves_magnitude(cri, best) == 1000 * Abs(cri) < 999 * Abs(best)

\* check_improvement(): cri < self._best_criteria - abs(self._best_criteria) * 0.001
Improves(cri, best) == 1000 * cri < 1000 * best - Abs(best)

\* log(): line = "[{}] {}".format(who, msg); the message is kept by its kind.
LogLine(who, msg) == <<who, msg>>

\* __init__: the five lines logged at construction.
InitLogLines ==
    << LogLine("nmtlab", "Training"), LogLine("nmtlab", "with"),
       LogLine("nmtlab", "Training data has"), LogLine("nmtlab", "Hash of validation data"),
       LogLine("nmtlab", "Running with") >>

\* A call that logs is made only while the log holds fewer lines than this (a
\* valid() whose scheduler changes the learning rate then adds two).
MaxLogLines == Len(InitLogLines) + MaxNewLines

\* set_learning_rate(): "change learning rate to {:.6f}".format(lr)
LrMessage(lr) == "change learning rate to " \o ToString(lr)

\* optimizer.state_dict(): the optimizer's state and its param_groups
OptimizerStateDict == [state |-> optimizer_state, lr |-> learning_rate]

\* (mutant) the live counters are saved, not the arguments
StateDict_live(epoch, step) ==
    [epoch |-> current_epoch, step |-> current_step,
     model_state |-> model_state, optimizer_state |-> OptimizerStateDict]

\* save(): the state_dict written by torch.save
StateDict(epoch, step) ==
    [epoch |-> epoch, step |-> step,
     model_state |-> model_state, optimizer_state |-> OptimizerStateDict]

\* save(): the checkpoint files after save(epoch, step)
SaveFiles(epoch, step) ==
    IF save_path # None
    THEN [files EXCEPT ![save_path] = File(StateDict(epoch, step))]
    ELSE files

\* (mutant) the sidecar is opened for appending
SaveSidecars_append ==
    IF save_path # None
    THEN [sidecars EXCEPT ![save_path] =
            File((IF @ = NoFile THEN <<>> ELSE Content(@)) \o log_lines)]
    ELSE sidecars

\* save(): the sidecar files after save(epoch, step): the log lines, rewritten
SaveSidecars ==
    IF save_path # None
    THEN [sidecars EXCEPT ![save_path] = File(log_lines)]
    ELSE sidecars

\* The record of a save() call: what the caller passed and what was current.
SaveCalls(epoch, step) ==
    IF save_path # None
    THEN [save_calls EXCEPT ![save_path] =
            File([epoch |-> epoch, step |-> step,
                  model |-> model_state, optimizer |-> OptimizerStateDict])]
    ELSE save_calls

Call(op, ret, trace) == [op |-> op, ret |-> ret, trace |-> trace]
\* The same call, having made some more calls
AddTraceOf(c, entries) == [c EXCEPT !.trace = @ \o entries]

cfgVars == <<save_path, clip_norm, n_valid_per_epoch, criteria, valid_freq>>
diskVars == <<files, sidecars, save_calls>>
netVars == <<model_state, optimizer_state, learning_rate, model_training>>
trainerVars == <<n_train_batch, cfgVars, best_criteria, current_epoch, current_step,
                 log_lines, netVars, diskVars, sched_finished, error, call>>
bleuVars == <<bleu_pc, bleu_rows, cur_tgt, cur_sampled, bleus, bleu_last, bleu_ret>>
multiVars == <<local_rank, p_valid_freq, p_step, p_lr, p_sched_finished, p_pc, p_call>>
clipVars == <<train_pc, grads>>
driverVars == <<script, p_pos>>
validVars == <<valid_pc, valid_locals, after_valid_args>>
otherVars == <<bleuVars, multiVars, clipVars, driverVars, validVars>>
vars == <<trainerVars, bleuVars, multiVars, clipVars, driverVars, validVars>>

(* ------------------------------------------------------------------ *)
(* Construction                                                         *)
(* ------------------------------------------------------------------ *)
\* The trainer after __init__, for a dataset of n batches and a scheduler whose
\* is_finished() answers fin.
InitTrainer(n, fin) ==
    /\ n_train_batch = n
    /\ save_path = None
    /\ clip_norm = DefaultClipNorm
    /\ n_valid_per_epoch = DefaultNValidPerEpoch
    /\ criteria = DefaultCriteria
    /\ valid_freq = ValidFreq(n, DefaultNValidPerEpoch)
    /\ best_criteria = InitBestCriteria
    /\ current_epoch = 0
    /\ current_step = 0
    /\ log_lines = InitLogLines
    /\ model_state = 0
    /\ optimizer_state = 0
    /\ learning_rate = InitLearningRate
    /\ model_training = TRUE
    /\ files = [p \in Paths |-> NoFile]
    /\ sidecars = [p \in Paths |-> NoFile]
    /\ sched_finished = fin
    /\ error = NoError
    /\ call = Call("__init__", None, <<>>)
    /\ save_calls = [p \in Paths |-> NoFile]

\* No iteration of the loop of _compute_bleu has completed on the row at hand.
NoIteration ==
    [branch |-> None, out_tokens |-> <<>>, ref_tokens |-> <<>>, scored |-> None]

\* No call of _compute_bleu is under way.
BleuOff ==
    /\ bleu_pc = "off"
    /\ bleu_rows = 0
    /\ cur_tgt = <<>>
    /\ cur_sampled = <<>>
    /\ bleus = <<>>
    /\ bleu_last = NoIteration
    /\ bleu_ret = <<>>

\* No multi-device run: self._multigpu is False.
MultiOff ==
    /\ local_rank = <<>>
    /\ p_valid_freq = 0
    /\ p_step = <<>>
    /\ p_lr = <<>>
    /\ p_sched_finished = <<>>
    /\ p_pc = <<>>
    /\ p_call = <<>>

\* No train(batch) is under way and no gradient has been computed.
NoTrainStep ==
    /\ train_pc = "idle"
    /\ grads = <<>>

\* The participants, if any, are not driven by a common script.
NoScript ==
    /\ script = <<>>
    /\ p_pos = <<>>

\* No valid() is under way.
NoLocals == <<>>
NoValidPass ==
    /\ valid_pc = "idle"
    /\ valid_locals = NoLocals
    /\ after_valid_args = <<>>

Init ==
    /\ \E n \in TrainBatchCounts, fin \in BOOLEAN : InitTrainer(n, fin)
    /\ BleuOff
    /\ MultiOff
    /\ NoTrainStep
    /\ NoScript
    /\ NoValidPass

(* ------------------------------------------------------------------ *)
(* Operations                                                           *)
(* ------------------------------------------------------------------ *)
\* configure(save_path, clip_norm, n_valid_per_epoch, criteria): the four fields
\* are assigned, then the frequency, then the criteria is asserted.
Configure(path, clip, n_valid, cri) ==
    /\ error = NoError
    /\ save_path' = path
    /\ clip_norm' = clip
    /\ n_valid_per_epoch' = n_valid
    /\ criteria' = cri
    /\ IF n_valid = 0
       THEN /\ valid_freq' = valid_freq
            /\ error' = "ZeroDivisionError"
       ELSE /\ valid_freq' = ValidFreq(n_train_batch, n_valid)
            /\ error' = IF cri \in Criterias THEN NoError ELSE "AssertionError"
    /\ call' = Call("configure", None, <<>>)
    /\ UNCHANGED <<otherVars, n_train_batch, best_criteria, current_epoch, current_step,
                   log_lines, netVars, diskVars, sched_finished>>

\* begin_step(step)
BeginStep(step) ==
    /\ error = NoError
    /\ current_step' = step
    /\ call' = Call("begin_step", None, <<>>)
    /\ UNCHANGED <<otherVars, n_train_batch, cfgVars, best_criteria, current_epoch,
                   log_lines, netVars, diskVars, sched_finished, error>>

\* begin_epoch(epoch): the scheduler's before_epoch() may change its mind.
BeginEpoch(epoch, fin) ==
    /\ error = NoError
    /\ current_epoch' = epoch
    /\ sched_finished' = fin
    /\ call' = Call("begin_epoch", None, <<"scheduler.before_epoch">>)
    /\ UNCHANGED <<otherVars, n_train_batch, cfgVars, best_criteria, current_step,
                   log_lines, netVars, diskVars, error>>

\* end_epoch(): scheduler.after_epoch(), then one log line.
EndEpoch(fin) ==
    /\ error = NoError
    /\ Len(log_lines) < MaxLogLines
    /\ sched_finished' = fin
    /\ log_lines' = Append(log_lines, LogLine("nmtlab", "Ending epoch"))
    /\ call' = Call("end_epoch", None, <<"scheduler.after_epoch", "log">>)
    /\ UNCHANGED <<otherVars, n_train_batch, cfgVars, best_criteria, current_epoch,
                   current_step, netVars, diskVars, error>>

\* log(who, msg), single device (_is_root_node() is True): the line is kept and printed
LogInputs == {<<"nmtlab", "note">>, <<"valid", "scores">>}

Log(who, msg) ==
    /\ error = NoError
    /\ Len(log_lines) < MaxLogLines
    /\ log_lines' = Append(log_lines, LogLine(who, msg))
    /\ call' = Call("log", None, <<"print">>)
    /\ UNCHANGED <<otherVars, n_train_batch, cfgVars, best_criteria, current_epoch,
                   current_step, netVars, diskVars, sched_finished, error>>

\* get_learning_rate(): the rate of the first param group
GetLearningRate == learning_rate

\* set_learning_rate(lr), single device (_is_root_node() is True): every param
\* group takes the rate, and the change is logged
SetLearningRate(lr) ==
    /\ error = NoError
    /\ Len(log_lines) < MaxLogLines
    /\ learning_rate' = lr
    /\ log_lines' = Append(log_lines, LogLine("nmtlab", LrMessage(lr)))
    /\ call' = Call("set_learning_rate", None, <<"log", "print">>)
    /\ UNCHANGED <<otherVars, n_train_batch, cfgVars, best_criteria, current_epoch,
                   current_step, model_state, optimizer_state, model_training,
                   diskVars, sched_finished, error>>

\* train(batch): the calls made, in order; the gradient is clipped when clip_norm > 0.
TrainTrace ==
    <<"model", "optimizer.zero_grad", "loss.backward">>
    \o (IF clip_norm > 0 THEN <<"_clip_grad_norm">> ELSE <<>>)
    \o <<"optimizer.step", "print_progress">>

\* train(batch): one forward and backward step; returns the model's val_map.
Train ==
    /\ error = NoError
    /\ model_state < MaxUpdates
    /\ model_state' = model_state + 1
    /\ optimizer_state' = optimizer_state + 1
    /\ call' = Call("train", "val_map", TrainTrace)
    /\ UNCHANGED <<otherVars, n_train_batch, cfgVars, best_criteria, current_epoch,
                   current_step, log_lines, learning_rate, model_training, diskVars,
                   sched_finished, error>>

\* save(epoch, step)
Save(epoch, step) ==
    /\ error = NoError
    /\ files' = SaveFiles(epoch, step)
    /\ sidecars' = SaveSidecars
    /\ save_calls' = SaveCalls(epoch, step)
    /\ call' = Call("save", None, IF save_path # None THEN <<"torch.save", "open">> ELSE <<>>)
    /\ UNCHANGED <<otherVars, n_train_batch, cfgVars, best_criteria, current_epoch,
                   current_step, log_lines, netVars, sched_finished, error>>

\* load(): if model_path is None: model_path = self._save_path
LoadPath(model_path) == IF model_path = None THEN save_path ELSE model_path

\* (mutant) epoch and step are read from each other's key
Loaded_swapped(state_dict) ==
    [model_state |-> state_dict.model_state,
     optimizer_state |-> state_dict.optimizer_state.state,
     learning_rate |-> state_dict.optimizer_state.lr,
     current_step |-> state_dict.epoch,
     current_epoch |-> state_dict.step]

\* load(): the trainer's fields after load_state_dict and the two assignments
Loaded(state_dict) ==
    [model_state |-> state_dict.model_state,
     optimizer_state |-> state_dict.optimizer_state.state,
     learning_rate |-> state_dict.optimizer_state.lr,
     current_step |-> state_dict.step,
     current_epoch |-> state_dict.epoch]

\* (mutant) load() also puts best_criteria back to its value at construction
Load_resets_best(model_path) ==
    /\ error = NoError
    /\ LET path == LoadPath(model_path) IN
       IF path = None \/ files[path] = NoFile
       THEN /\ error' = "LoadError"
            /\ call' = Call("load", None, <<"torch.load">>)
            /\ UNCHANGED <<model_state, optimizer_state, learning_rate, current_step,
                           current_epoch, best_criteria>>
       ELSE LET got == Loaded(Content(files[path])) IN
            /\ model_state' = got.model_state
            /\ optimizer_state' = got.optimizer_state
            /\ learning_rate' = got.learning_rate
            /\ current_step' = got.current_step
            /\ current_epoch' = got.current_epoch
            /\ best_criteria' = InitBestCriteria
            /\ call' = Call("load", None, <<"torch.load", path>>)
            /\ error' = NoError
    /\ UNCHANGED <<otherVars, n_train_batch, cfgVars, log_lines,
                   model_training, diskVars, sched_finished>>

\* load(model_path): torch.load raises when there is no such file.
Load(model_path) ==
    /\ error = NoError
    /\ LET path == LoadPath(model_path) IN
       IF path = None \/ files[path] = NoFile
       THEN /\ error' = "LoadError"
            /\ call' = Call("load", None, <<"torch.load">>)
            /\ UNCHANGED <<model_state, optimizer_state, learning_rate, current_step,
                           current_epoch>>
       ELSE LET got == Loaded(Content(files[path])) IN
            /\ model_state' = got.model_state
            /\ optimizer_state' = got.optimizer_state
            /\ learning_rate' = got.learning_rate
            /\ current_step' = got.current_step
            /\ current_epoch' = got.current_epoch
            /\ call' = Call("load", None, <<"torch.load", path>>)
            /\ error' = NoError
    /\ UNCHANGED <<otherVars, n_train_batch, cfgVars, best_criteria, log_lines,
                   model_training, diskVars, sched_finished>>

\* (mutant) the answer is inverted
IsFinishedResult_not == ~sched_finished

\* is_finished(), single device: the scheduler's answer
IsFinishedResult == sched_finished

IsFinished ==
    /\ error = NoError
    /\ call' = Call("is_finished", PyBool(IsFinishedResult), <<"scheduler.is_finished">>)
    /\ UNCHANGED <<otherVars, n_train_batch, cfgVars, best_criteria, current_epoch,
                   current_step, log_lines, netVars, diskVars, sched_finished, error>>

\* (mutant) the checkpoint is saved under the live counters
CheckImprovement_live(score_map) ==
    LET cri == score_map[criteria] IN
    IF Improves(cri, best_criteria)
    THEN [improved |-> TRUE, best |-> cri,
          files |-> SaveFiles(current_epoch, current_step),
          sidecars |-> SaveSidecars,
          save_calls |-> SaveCalls(current_epoch, current_step)]
    ELSE [improved |-> FALSE, best |-> best_criteria, files |-> files,
          sidecars |-> sidecars, save_calls |-> save_calls]

\* check_improvement(score_map): the decision and the fields and files it leaves.
CheckImprovement(score_map) ==
    LET cri == score_map[criteria] IN
    IF Improves(cri, best_criteria)
    THEN [improved |-> TRUE, best |-> cri, files |-> SaveFiles(0, 0),
          sidecars |-> SaveSidecars, save_calls |-> SaveCalls(0, 0)]
    ELSE [improved |-> FALSE, best |-> best_criteria, files |-> files,
          sidecars |-> sidecars, save_calls |-> save_calls]

\* check_improvement(score_map), called on its own
CheckImprovementCall(score_map) ==
    /\ error = NoError
    /\ LET r == CheckImprovement(score_map) IN
       /\ best_criteria' = r.best
       /\ files' = r.files
       /\ sidecars' = r.sidecars
       /\ save_calls' = r.save_calls
       /\ call' = Call("check_improvement", PyBool(r.improved),
                       IF r.improved THEN <<"save">> ELSE <<>>)
    /\ UNCHANGED <<otherVars, n_train_batch, cfgVars, current_epoch, current_step,
                   log_lines, netVars, sched_finished, error>>

\* scheduler.after_valid(...): the calls it makes when the scheduler changes the
\* learning rate (trainer.set_learning_rate, which logs on a root node)
AfterValidTrace(sets_lr) ==
    <<"scheduler.after_valid">>
    \o (IF sets_lr THEN <<"set_learning_rate", "log">> ELSE <<>>)

\* valid(): the calls of a validation pass, in order
ValidTrace(improved, sets_lr) ==
    <<"model.train(False)", "run_valid", "check_improvement">>
    \o (IF improved THEN <<"save">> ELSE <<>>)
    \o AfterValidTrace(sets_lr)
    \o <<"model.train(True)", "log">>

\* The log lines after a validation pass: the line of set_learning_rate when the
\* scheduler changed the rate to lr, then the line of valid()
ValidLogLines(improved, sets_lr, lr) ==
    log_lines
    \o (IF sets_lr THEN <<LogLine("nmtlab", LrMessage(lr))>> ELSE <<>>)
    \o <<LogLine("valid", IF improved THEN "scores *" ELSE "scores")>>

\* valid(), single device (_is_root_node() is True, self._multigpu is False):
\* score_map is what run_valid() returns, fin the scheduler's state after
\* after_valid, lr the learning rate it wants: when that is not the current one it
\* calls set_learning_rate(lr).
Valid(score_map, fin, lr) ==
    /\ error = NoError
    /\ IF valid_freq = 0
       THEN /\ error' = "ZeroDivisionError"
            /\ call' = Call("valid", None, <<>>)
            /\ UNCHANGED <<best_criteria, log_lines, learning_rate, model_training,
                           diskVars, sched_finished>>
       ELSE IF ValidTriggers(current_step, valid_freq)
       THEN /\ Len(log_lines) < MaxLogLines
            /\ LET r == CheckImprovement(score_map) IN
               /\ best_criteria' = r.best
               /\ files' = r.files
               /\ sidecars' = r.sidecars
               /\ save_calls' = r.save_calls
               /\ log_lines' = ValidLogLines(r.improved, lr # learning_rate, lr)
               /\ call' = Call("valid", None, ValidTrace(r.improved, lr # learning_rate))
            /\ sched_finished' = fin
            /\ learning_rate' = lr
            /\ model_training' = TRUE
            /\ error' = NoError
       ELSE /\ call' = Call("valid", None, <<>>)
            /\ UNCHANGED <<best_criteria, log_lines, learning_rate, model_training,
                           diskVars, sched_finished, error>>
    /\ UNCHANGED <<otherVars, n_train_batch, cfgVars, current_epoch, current_step,
                   model_state, optimizer_state>>

(* ------------------------------------------------------------------ *)
(* valid() statement by statement, single device                        *)
(* ------------------------------------------------------------------ *)
Locals(score_map, is_improved) == <<[score_map |-> score_map, is_improved |-> is_improved]>>

\* The frame of a statement of valid(): the fields no statement of valid() assigns
ValidFrame ==
    UNCHANGED <<bleuVars, multiVars, clipVars, driverVars, n_train_batch, cfgVars,
                current_epoch, current_step, model_state, optimizer_state>>

\* configure(...), begin_step(step) and check_improvement(score_map), called
\* between two calls of valid()
ConfigureBetween(path, clip, n_valid, cri) ==
    /\ valid_pc = "idle"
    /\ Configure(path, clip, n_valid, cri)

BeginStepBetween(step) ==
    /\ valid_pc = "idle"
    /\ BeginStep(step)

CheckImprovementBetween(score_map) ==
    /\ valid_pc = "idle"
    /\ CheckImprovementCall(score_map)

\* valid(): the test of the step and, when it triggers, self._model.train(False)
ValidEnter ==
    /\ error = NoError
    /\ valid_pc = "idle"
    /\ after_valid_args' = <<>>
    /\ valid_locals' = NoLocals
    /\ IF valid_freq = 0
       THEN /\ error' = "ZeroDivisionError"
            /\ call' = Call("valid", None, <<>>)
            /\ UNCHANGED <<model_training, valid_pc>>
       ELSE IF ValidTriggers(current_step, valid_freq)
       THEN /\ Len(log_lines) < MaxLogLines
            /\ model_training' = FALSE
            /\ valid_pc' = "run_valid"
            /\ call' = Call("valid", None, <<"model.train(False)">>)
            /\ error' = NoError
       ELSE /\ call' = Call("valid", None, <<>>)
            /\ UNCHANGED <<model_training, valid_pc, error>>
    /\ UNCHANGED <<best_criteria, log_lines, learning_rate, diskVars, sched_finished>>
    /\ ValidFrame

\* score_map = self.run_valid()
ValidRunValid(score_map) ==
    /\ valid_pc = "run_valid"
    /\ valid_locals' = Locals(score_map, None)
    /\ valid_pc' = "check_improvement"
    /\ call' = AddTraceOf(call, <<"run_valid">>)
    /\ UNCHANGED <<best_criteria, log_lines, learning_rate, model_training, diskVars,
                   sched_finished, error, after_valid_args>>
    /\ ValidFrame

\* is_improved = self.check_improvement(score_map)
ValidCheckImprovement ==
    /\ valid_pc = "check_improvement"
    /\ LET r == CheckImprovement(valid_locals[1].score_map) IN
       /\ best_criteria' = r.best
       /\ files' = r.files
       /\ sidecars' = r.sidecars
       /\ save_calls' = r.save_calls
       /\ valid_locals' = Locals(valid_locals[1].score_map, PyBool(r.improved))
       /\ call' = AddTraceOf(call, <<"check_improvement">>
                                   \o (IF r.improved THEN <<"save">> ELSE <<>>))
    /\ valid_pc' = "after_valid"
    /\ UNCHANGED <<log_lines, learning_rate, model_training, sched_finished, error,
                   after_valid_args>>
    /\ ValidFrame

\* self._scheduler.after_valid(is_improved, score_map): the scheduler may change
\* its mind about finishing, and may call set_learning_rate(lr) for another rate
ValidAfterValid(fin, lr) ==
    /\ valid_pc = "after_valid"
    /\ after_valid_args' =
          Append(after_valid_args, <<valid_locals[1].is_improved, valid_locals[1].score_map>>)
    /\ sched_finished' = fin
    /\ learning_rate' = lr
    /\ log_lines' = IF lr # learning_rate
                    THEN Append(log_lines, LogLine("nmtlab", LrMessage(lr)))
                    ELSE log_lines
    /\ valid_pc' = "train(True)"
    /\ call' = AddTraceOf(call, AfterValidTrace(lr # learning_rate))
    /\ UNCHANGED <<best_criteria, model_training, diskVars, error, valid_locals>>
    /\ ValidFrame

\* (mutant) the model is left in evaluation mode
ModeAfterValid_eval == FALSE

\* self._model.train(True)
ModeAfterValid == TRUE

ValidTrainMode ==
    /\ valid_pc = "train(True)"
    /\ model_training' = ModeAfterValid
    /\ valid_pc' = "log"
    /\ call' = AddTraceOf(call, <<"model.train(True)">>)
    /\ UNCHANGED <<best_criteria, log_lines, learning_rate, diskVars, sched_finished,
                   error, valid_locals, after_valid_args>>
    /\ ValidFrame

\* self.log("valid", ...), and valid() returns
ValidLog ==
    /\ valid_pc = "log"
    /\ log_lines' = Append(log_lines,
          LogLine("valid", IF valid_locals[1].is_improved = "True"
                           THEN "scores *" ELSE "scores"))
    /\ valid_pc' = "idle"
    /\ call' = AddTraceOf(call, <<"log">>)
    /\ UNCHANGED <<best_criteria, learning_rate, model_training, diskVars,
                   sched_finished, error, valid_locals, after_valid_args>>
    /\ ValidFrame

(* ------------------------------------------------------------------ *)
(* _compute_bleu(sampled_tokens, tgt_seq)                               *)
(*                                                                      *)
(* The batch is read row by row, as the loop reads it; smoothed_bleu is *)
(* outside src/ and returns whatever score it returns.                  *)
(* ------------------------------------------------------------------ *)
TgtTokens == {0, EOS, 5}
SampledTokens == {EOS, 5, 6}
SeqsOfLen(S, n) == [1..n -> S]
TgtRows == SeqsOfLen(TgtTokens, TgtLen)
SampledRows == SeqsOfLen(SampledTokens, SampledLen)
SmoothedBleuValues == {1, 2}

Min(a, b) == IF a < b THEN a ELSE b
Max(a, b) == IF a > b THEN a ELSE b

\* seq[start:stop] in Python (0-based, stop excluded, negative indices from the end)
PySlice(seq, start, stop) ==
    LET n == Len(seq)
        norm(x) == IF x < 0 THEN Max(x + n, 0) ELSE Min(x, n)
        a == norm(start)
        b == norm(stop)
    IN  IF a < b THEN SubSeq(seq, a + 1, b) ELSE <<>>

\* tgt_mask = np.greater(tgt_seq, 0); target_len = int(tgt_mask[i].sum())
TargetLen(tgt_row) == Cardinality({i \in 1..Len(tgt_row) : tgt_row[i] > 0})

\* ref_tokens = tgt_seq[i, 1:target_len - 1]
RefTokens(tgt_row) == PySlice(tgt_row, 1, TargetLen(tgt_row) - 1)

\* (mutant) the last occurrence is taken
PyIndex_last(seq, x) ==
    (CHOOSE i \in 1..Len(seq) :
        seq[i] = x /\ \A j \in (i + 1)..Len(seq) : seq[j] # x) - 1

\* out_tokens.index(2): the 0-based place of the first occurrence
PyIndex(seq, x) ==
    (CHOOSE i \in 1..Len(seq) :
        seq[i] = x /\ \A j \in 1..(i - 1) : seq[j] # x) - 1

\* if 2 in out_tokens
HasEos(sampled_row) == \E i \in 1..Len(sampled_row) : sampled_row[i] = EOS

\* out_tokens after the truncation of either branch
OutTokens(sampled_row, target_len) ==
    IF HasEos(sampled_row)
    THEN PySlice(sampled_row, 0, PyIndex(sampled_row, EOS))
    ELSE PySlice(sampled_row, 0, target_len - 2)

\* (mutant) smoothed_bleu is called whatever the hypothesis
CallsSmoothedBleu_always(out_tokens) == TRUE

\* if not out_tokens: bleus.append(0.) else: bleus.append(smoothed_bleu(...))
CallsSmoothedBleu(out_tokens) == out_tokens # <<>>

RECURSIVE Sum(_)
Sum(seq) == IF seq = <<>> THEN 0 ELSE seq[1] + Sum(Tail(seq))

\* np.mean(bleus), as the sum and the count (the mean of no row is nan)
Mean(seq) == <<Sum(seq), Len(seq)>>

\* A call of _compute_bleu on a batch of n rows
InitBleu(n) ==
    /\ bleu_pc = "for"
    /\ bleu_rows = n
    /\ cur_tgt = <<>>
    /\ cur_sampled = <<>>
    /\ bleus = <<>>
    /\ bleu_last = NoIteration
    /\ bleu_ret = <<>>

\* for i in xrange(tgt_seq.shape[0]): the next iteration, or the end of the loop
BleuFor ==
    /\ bleu_pc = "for"
    /\ bleu_pc' = IF bleu_rows > 0 THEN "row" ELSE "mean"
    /\ bleu_last' = NoIteration
    /\ UNCHANGED <<trainerVars, multiVars, clipVars, driverVars, validVars,
                   bleu_rows, cur_tgt, cur_sampled, bleus,
                   bleu_ret>>

\* row i of tgt_seq and of sampled_tokens is read
BleuRow ==
    /\ bleu_pc = "row"
    /\ cur_tgt' \in TgtRows
    /\ cur_sampled' \in SampledRows
    /\ bleu_rows' = bleu_rows - 1
    /\ bleu_pc' = "score"
    /\ UNCHANGED <<trainerVars, multiVars, clipVars, driverVars, validVars,
                   bleus, bleu_last, bleu_ret>>

\* the body of the loop on that row; sb is what smoothed_bleu returns if called
BleuScore(sb) ==
    /\ bleu_pc = "score"
    /\ LET target_len == TargetLen(cur_tgt)
           ref_tokens == RefTokens(cur_tgt)
           out_tokens == OutTokens(cur_sampled, target_len)
           called == CallsSmoothedBleu(out_tokens)
       IN  /\ bleus' = Append(bleus, IF called THEN sb ELSE 0)
           /\ bleu_last' = [branch |-> IF HasEos(cur_sampled) THEN "eos" ELSE "no eos",
                            out_tokens |-> out_tokens,
                            ref_tokens |-> ref_tokens,
                            scored |-> IF called THEN "smoothed_bleu" ELSE "0."]
    /\ cur_tgt' = <<>>
    /\ cur_sampled' = <<>>
    /\ bleu_pc' = "for"
    /\ UNCHANGED <<trainerVars, multiVars, clipVars, driverVars, validVars,
                   bleu_rows, bleu_ret>>

\* return np.mean(bleus)
BleuMean ==
    /\ bleu_pc = "mean"
    /\ bleu_ret' = Mean(bleus)
    /\ bleu_pc' = "done"
    /\ UNCHANGED <<trainerVars, multiVars, clipVars, driverVars, validVars,
                   bleu_rows, cur_tgt, cur_sampled, bleus, bleu_last>>

(* ------------------------------------------------------------------ *)
(* train(batch) step by step, and _clip_grad_norm()                     *)
(*                                                                      *)
(* A gradient is a vector of integers times a rational factor num/den,  *)
(* which is 1/1 as backward() leaves it; a parameter that took no part  *)
(* in the loss has no gradient.  Norms are rationals <<a, b>> = a / b.  *)
(* The vectors are chosen with a whole Euclidean norm.                  *)
(* ------------------------------------------------------------------ *)
NoGrad == <<>>
Grad(vec, num, den) == <<[vec |-> vec, num |-> num, den |-> den]>>
GradVecs == {<<0, 0>>, <<3, 4>>, <<-6, 8>>}
GradValues == {NoGrad} \cup {Grad(v, 1, 1) : v \in GradVecs}
GradLists == [1..NParams -> GradValues]
\* clip_norm as configure() may set it: the default, zero and a negative one
ClipNorms == {DefaultClipNorm, 0, -1}

\* The whole square root of n
Isqrt(n) == CHOOSE r \in 0..n : r * r <= n /\ (r + 1) * (r + 1) > n

NormSq(vec) == vec[1] * vec[1] + vec[2] * vec[2]

\* (mutant) one norm over the gradients of all parameters jointly
GradNorm_joint(gs, i) ==
    LET sq(j) == IF gs[j] = NoGrad THEN 0 ELSE NormSq(gs[j][1].vec)
        total == Sum([j \in 1..Len(gs) |-> sq(j)])
    IN  <<Isqrt(total) * gs[i][1].num, gs[i][1].den>>

\* grad_norm = param.grad.data.norm(): the norm of parameter i's own gradient
GradNorm(gs, i) == <<Isqrt(NormSq(gs[i][1].vec)) * gs[i][1].num, gs[i][1].den>>

\* grad_norm > max_norm
ExceedsNorm(norm, max_norm) == norm[1] > max_norm * norm[2]

\* param.grad.data.mul_(max_norm / (grad_norm + 1e-6))
MulClip(g, norm, max_norm) ==
    Grad(g[1].vec, g[1].num * max_norm * norm[2] * InvEps,
                   g[1].den * (norm[1] * InvEps + norm[2]))

\* _clip_grad_norm(): the gradients it leaves
ClipGradNorm(gs) ==
    IF clip_norm <= 0
    THEN gs
    ELSE [i \in DOMAIN gs |->
            IF gs[i] = NoGrad
            THEN NoGrad
            ELSE LET grad_norm == GradNorm(gs, i) IN
                 IF ExceedsNorm(grad_norm, clip_norm)
                 THEN MulClip(gs[i], grad_norm, clip_norm)
                 ELSE gs[i]]

\* configure(clip_norm=clip), the other arguments at their defaults
ConfigureClip(clip) ==
    /\ train_pc = "idle"
    /\ Configure(None, clip, DefaultNValidPerEpoch, DefaultCriteria)

\* train(batch) up to loss.backward(): gs are the gradients backward() computes
TrainBackward(gs) ==
    /\ error = NoError
    /\ train_pc = "idle"
    /\ model_state < MaxUpdates
    /\ grads' = gs
    /\ train_pc' = "backward"
    /\ call' = Call("train", None, <<"model", "optimizer.zero_grad", "loss.backward">>)
    /\ UNCHANGED <<bleuVars, multiVars, driverVars, validVars, n_train_batch, cfgVars, best_criteria,
                   current_epoch, current_step, log_lines, netVars, diskVars,
                   sched_finished, error>>

\* train(batch): if self._clip_norm > 0: self._clip_grad_norm()
TrainClip ==
    /\ error = NoError
    /\ train_pc = "backward"
    /\ grads' = IF clip_norm > 0 THEN ClipGradNorm(grads) ELSE grads
    /\ train_pc' = "step"
    /\ call' = Call("train", None,
                    call.trace \o (IF clip_norm > 0 THEN <<"_clip_grad_norm">> ELSE <<>>))
    /\ UNCHANGED <<bleuVars, multiVars, driverVars, validVars, n_train_batch, cfgVars, best_criteria,
                   current_epoch, current_step, log_lines, netVars, diskVars,
                   sched_finished, error>>

\* train(batch): optimizer.step(), print_progress, return val_map
TrainStep ==
    /\ error = NoError
    /\ train_pc = "step"
    /\ model_state' = model_state + 1
    /\ optimizer_state' = optimizer_state + 1
    /\ train_pc' = "idle"
    /\ call' = Call("train", "val_map", call.trace \o <<"optimizer.step", "print_progress">>)
    /\ UNCHANGED <<bleuVars, multiVars, driverVars, validVars, grads, n_train_batch,
                   cfgVars, best_criteria, current_epoch, current_step, log_lines,
                   learning_rate, model_training, diskVars, sched_finished, error>>

\* _clip_grad_norm() called on its own, on the gradients of the last backward()
ClipGradNormCall ==
    /\ error = NoError
    /\ train_pc = "idle"
    /\ grads # <<>>
    /\ grads' = ClipGradNorm(grads)
    /\ call' = Call("_clip_grad_norm", None, <<>>)
    /\ UNCHANGED <<bleuVars, multiVars, driverVars, validVars, train_pc, n_train_batch, cfgVars, best_criteria,
                   current_epoch, current_step, log_lines, netVars, diskVars,
                   sched_finished, error>>

(* ------------------------------------------------------------------ *)
(* Multi-device mode (self._multigpu): one TrainerKit per participant.  *)
(*                                                                      *)
(* hvd.broadcast and hvd.broadcast_parameters block until every         *)
(* participant has entered the same collective; then each gets the      *)
(* value of rank ROOT_RANK.  A participant blocked in a collective that *)
(* the others never enter stays blocked.  The participants' logs,       *)
(* checkpoints and parameters are not followed here.                    *)
(* ------------------------------------------------------------------ *)
Procs == 0..(NProcs - 1)
Hosts == 1..NProcs
MultiSteps == {0, 1, ParamSyncPeriod - 1}
MultiValidFreqs == {2, 4}
\* torch.tensor(x) of a Python float is a float32 tensor: x rounded to the nearest
\* float32; float(lr.numpy()) widens that value back without change.
Float32(x) == ((2 * x + Float32Ulp) \div (2 * Float32Ulp)) * Float32Ulp

\* lr = torch.tensor(self.get_learning_rate()) on participant p
LrTensor(p) == Float32(p_lr[p])

\* hvd.local_rank(): the participant's place among those of its host
LocalRanks(host) ==
    [p \in Procs |-> Cardinality({q \in Procs : q < p /\ host[q] = host[p]})]

\* _is_root_node(), multi-device: hvd.local_rank() == ROOT_RANK
IsRootNode(p) == local_rank[p] = ROOT_RANK

\* (mutant) no broadcast: each participant keeps its own value
HvdBroadcast_own(p, values, root_rank) == values[p]

\* hvd.broadcast(tensor, root_rank), as participant p receives it
HvdBroadcast(p, values, root_rank) == values[root_rank]

\* valid(): (self._current_step + 1) % 30 == 0
SyncsParams(step) == PyMod(step + 1, ParamSyncPeriod) = 0

\* (mutant) the broadcast sits under the condition of the validation pass
IssuesLrBroadcast_root(p, step, freq) == ValidTriggers(step, freq) /\ IsRootNode(p)

\* valid(): if (self._current_step + 1) % self._valid_freq == 0 and self._multigpu
IssuesLrBroadcast(p, step, freq) == ValidTriggers(step, freq)

AllIn(pc) == \A p \in Procs : p_pc[p] = pc

AddTrace(c, entry) == [c EXCEPT !.trace = Append(@, entry)]

\* The participants after __init__, placed on hosts, with any schedulers
InitMulti ==
    /\ \E host \in [Procs -> Hosts] : local_rank = LocalRanks(host)
    /\ p_valid_freq \in MultiValidFreqs
    /\ p_step = [p \in Procs |-> 0]
    /\ p_lr = [p \in Procs |-> InitLearningRate]
    /\ p_sched_finished \in [Procs -> BOOLEAN]
    /\ p_pc = [p \in Procs |-> "idle"]
    /\ p_call = [p \in Procs |-> Call("__init__", None, <<>>)]

\* begin_step(step) on participant p
PBeginStep(p, step) ==
    /\ p_pc[p] = "idle"
    /\ p_step' = [p_step EXCEPT ![p] = step]
    /\ p_call' = [p_call EXCEPT ![p] = Call("begin_step", None, <<>>)]
    /\ UNCHANGED <<trainerVars, bleuVars, clipVars, validVars, local_rank, p_valid_freq, p_lr,
                   p_sched_finished, p_pc>>

\* valid() on participant p, up to its first collective: the validation pass on a
\* root node (check_improvement answers improved; the scheduler's after_valid may
\* call set_learning_rate(lr) for another rate and set its own flag to fin), then
\* the broadcast of the learning rate or of the parameters.
PValid(p, improved, lr, fin) ==
    /\ p_pc[p] = "idle"
    /\ LET triggers == IssuesLrBroadcast(p, p_step[p], p_valid_freq)
           validates == ValidTriggers(p_step[p], p_valid_freq) /\ IsRootNode(p)
       IN  /\ p_lr' = [p_lr EXCEPT ![p] = IF validates THEN lr ELSE @]
           /\ p_sched_finished' =
                [p_sched_finished EXCEPT ![p] = IF validates THEN fin ELSE @]
           /\ p_call' = [p_call EXCEPT ![p] =
                Call("valid", None,
                     IF validates THEN ValidTrace(improved, lr # p_lr[p]) ELSE <<>>)]
           /\ p_pc' = [p_pc EXCEPT ![p] =
                IF triggers THEN "broadcast lr"
                ELSE IF SyncsParams(p_step[p]) THEN "broadcast_parameters"
                ELSE "idle"]
    /\ UNCHANGED <<trainerVars, bleuVars, clipVars, validVars, local_rank, p_valid_freq, p_step>>

\* valid(): lr = hvd.broadcast(lr, ROOT_RANK) completes on all participants; each
\* calls set_learning_rate(new_lr) if it differs, which logs the change on a root
\* node, then goes on to the parameter broadcast when (step + 1) % 30 == 0.
BroadcastLr ==
    /\ AllIn("broadcast lr")
    /\ LET new_lr == [p \in Procs |->
                        HvdBroadcast(p, [q \in Procs |-> LrTensor(q)], ROOT_RANK)]
       IN  /\ p_lr' = [p \in Procs |-> IF new_lr[p] # p_lr[p] THEN new_lr[p] ELSE p_lr[p]]
           /\ p_call' = [p \in Procs |->
                 AddTraceOf(p_call[p],
                    <<"hvd.broadcast(lr)">>
                    \o (IF new_lr[p] # p_lr[p] THEN <<"set_learning_rate">> ELSE <<>>)
                    \o (IF new_lr[p] # p_lr[p] /\ IsRootNode(p) THEN <<"log">> ELSE <<>>))]
    /\ p_pc' = [p \in Procs |->
          IF SyncsParams(p_step[p]) THEN "broadcast_parameters" ELSE "idle"]
    /\ UNCHANGED <<trainerVars, bleuVars, clipVars, validVars, local_rank, p_valid_freq, p_step,
                   p_sched_finished, driverVars>>

\* valid(): hvd.broadcast_parameters(...) completes on all participants
BroadcastParameters ==
    /\ AllIn("broadcast_parameters")
    /\ p_call' = [p \in Procs |-> AddTrace(p_call[p], "hvd.broadcast_parameters")]
    /\ p_pc' = [p \in Procs |-> "idle"]
    /\ UNCHANGED <<trainerVars, bleuVars, clipVars, validVars, local_rank, p_valid_freq, p_step, p_lr,
                   p_sched_finished, driverVars>>

\* is_finished() on participant p, up to the broadcast of its flag tensor
PIsFinished(p) ==
    /\ p_pc[p] = "idle"
    /\ p_call' = [p_call EXCEPT ![p] = Call("is_finished", None, <<"scheduler.is_finished">>)]
    /\ p_pc' = [p_pc EXCEPT ![p] = "broadcast flag"]
    /\ UNCHANGED <<trainerVars, bleuVars, clipVars, validVars, local_rank, p_valid_freq, p_step, p_lr,
                   p_sched_finished>>

\* The three calls made by a driver that is free to call anything at any time
MBeginStep(p, step) == PBeginStep(p, step) /\ UNCHANGED driverVars
MValid(p, improved, lr, fin) == PValid(p, improved, lr, fin) /\ UNCHANGED driverVars
MIsFinished(p) == PIsFinished(p) /\ UNCHANGED driverVars

\* The calls a training script may hold: begin_step(1), begin_step(29), valid()
\* and is_finished()
ScriptSteps == {1, ParamSyncPeriod - 1}
ScriptCalls ==
    {[op |-> "begin_step", step |-> step] : step \in ScriptSteps}
    \cup {[op |-> "valid", step |-> 0], [op |-> "is_finished", step |-> 0]}
Scripts == [1..MaxCalls -> ScriptCalls]

\* The next call of the script for participant p
HasNextCall(p) == p_pc[p] = "idle" /\ p_pos[p] < Len(script)
NextCall(p) == script[p_pos[p] + 1]
Advance(p) == p_pos' = [p_pos EXCEPT ![p] = @ + 1] /\ UNCHANGED script

\* The same three calls made by participant p as its script says
ScriptBeginStep(p) ==
    /\ HasNextCall(p)
    /\ NextCall(p).op = "begin_step"
    /\ PBeginStep(p, NextCall(p).step)
    /\ Advance(p)

ScriptValid(p, improved, lr, fin) ==
    /\ HasNextCall(p)
    /\ NextCall(p).op = "valid"
    /\ PValid(p, improved, lr, fin)
    /\ Advance(p)

ScriptIsFinished(p) ==
    /\ HasNextCall(p)
    /\ NextCall(p).op = "is_finished"
    /\ PIsFinished(p)
    /\ Advance(p)

\* Participant p makes the next call of its script
ScriptCall(p) ==
    \/ ScriptBeginStep(p)
    \/ \E improved \in BOOLEAN, lr \in LearningRates, fin \in BOOLEAN :
            ScriptValid(p, improved, lr, fin)
    \/ ScriptIsFinished(p)

\* flag_tensor = torch.tensor(1 if is_finished else 0)
FlagTensor(p) == IF p_sched_finished[p] THEN 1 ELSE 0

\* is_finished(): hvd.broadcast(flag_tensor, ROOT_RANK) completes on all
\* participants; each returns flag_tensor > 0.
BroadcastFlag ==
    /\ AllIn("broadcast flag")
    /\ p_call' = [p \in Procs |->
          [AddTrace(p_call[p], "hvd.broadcast(flag)") EXCEPT
              !.ret = PyBool(HvdBroadcast(p, [q \in Procs |-> FlagTensor(q)], ROOT_RANK) > 0)]]
    /\ p_pc' = [p \in Procs |-> "idle"]
    /\ UNCHANGED <<trainerVars, bleuVars, clipVars, validVars, local_rank, p_valid_freq, p_step, p_lr,
                   p_sched_finished, driverVars>>

Next ==
    \/ \E c \in ConfigInputs : Configure(c[1], c[2], c[3], c[4])
    \/ \E epoch \in 0..MaxEpoch, fin \in BOOLEAN : BeginEpoch(epoch, fin)
    \/ \E step \in 0..MaxStep : BeginStep(step)
    \/ Train
    \/ \E score_map \in ScoreMaps, fin \in BOOLEAN, lr \in LearningRates :
            Valid(score_map, fin, lr)
    \/ \E score_map \in ScoreMaps : CheckImprovementCall(score_map)
    \/ \E lr \in LearningRates : SetLearningRate(lr)
    \/ \E fin \in BOOLEAN : EndEpoch(fin)
    \/ \E epoch \in SaveEpochs, step \in SaveSteps : Save(epoch, step)
    \/ \E model_path \in Paths \cup {None} : Load(model_path)
    \/ IsFinished

Spec == Init /\ [][Next]_vars

\* The operations around validation, with scores at the threshold
NextValid ==
    \/ \E c \in ConfigInputs : Configure(c[1], c[2], c[3], c[4])
    \/ \E step \in 0..MaxStep : BeginStep(step)
    \/ \E score_map \in FineScoreMaps, fin \in BOOLEAN, lr \in LearningRates :
            Valid(score_map, fin, lr)
    \/ \E score_map \in FineScoreMaps : CheckImprovementCall(score_map)

SpecValid == Init /\ [][NextValid]_vars

\* One call of _compute_bleu on a batch of up to MaxBatch rows
NextBleu ==
    \/ BleuFor
    \/ BleuRow
    \/ \E sb \in SmoothedBleuValues : BleuScore(sb)
    \/ BleuMean

InitBleuCall ==
    /\ InitTrainer(20, FALSE)
    /\ MultiOff
    /\ NoTrainStep
    /\ NoScript
    /\ NoValidPass
    /\ \E n \in 0..MaxBatch : InitBleu(n)

SpecBleu == InitBleuCall /\ [][NextBleu]_vars

\* A multi-device run: each participant's driver calls begin_step, valid and
\* is_finished
NextMulti ==
    \/ \E p \in Procs, step \in MultiSteps : MBeginStep(p, step)
    \/ \E p \in Procs, improved \in BOOLEAN, lr \in LearningRates, fin \in BOOLEAN :
            MValid(p, improved, lr, fin)
    \/ \E p \in Procs : MIsFinished(p)
    \/ BroadcastLr
    \/ BroadcastParameters
    \/ BroadcastFlag

InitMultiRun ==
    /\ InitTrainer(20, FALSE)
    /\ BleuOff
    /\ NoTrainStep
    /\ NoScript
    /\ NoValidPass
    /\ InitMulti

SpecMulti == InitMultiRun /\ [][NextMulti]_vars

\* A multi-device run in which every participant runs the same script
NextLockstep ==
    \/ \E p \in Procs : ScriptCall(p)
    \/ BroadcastLr
    \/ BroadcastParameters
    \/ BroadcastFlag

InitLockstep ==
    /\ InitTrainer(20, FALSE)
    /\ BleuOff
    /\ NoTrainStep
    /\ NoValidPass
    /\ InitMulti
    /\ p_sched_finished = [p \in Procs |-> FALSE]
    /\ script \in Scripts
    /\ p_pos = [p \in Procs |-> 0]

SpecLockstep == InitLockstep /\ [][NextLockstep]_vars

\* Every participant's process keeps running, and a collective that all
\* participants have entered completes.
SpecLockstepFair ==
    /\ SpecLockstep
    /\ \A p \in Procs : WF_vars(ScriptCall(p))
    /\ WF_vars(BroadcastLr)
    /\ WF_vars(BroadcastParameters)
    /\ WF_vars(BroadcastFlag)

\* log(), set_learning_rate() and save() called in any order, between configure()
\* calls, with the saves that check_improvement makes
NextSave ==
    \/ \E c \in ConfigInputs : Configure(c[1], c[2], c[3], c[4])
    \/ \E l \in LogInputs : Log(l[1], l[2])
    \/ \E lr \in LearningRates : SetLearningRate(lr)
    \/ \E epoch \in SaveEpochs, step \in SaveSteps : Save(epoch, step)
    \/ \E score_map \in ScoreMaps : CheckImprovementCall(score_map)

SpecSave == Init /\ [][NextSave]_vars

\* valid() statement by statement, between configure() and begin_step() calls
NextValidSteps ==
    \/ \E c \in ConfigInputs : ConfigureBetween(c[1], c[2], c[3], c[4])
    \/ \E step \in 0..MaxStep : BeginStepBetween(step)
    \/ \E score_map \in ScoreMaps : CheckImprovementBetween(score_map)
    \/ ValidEnter
    \/ \E score_map \in ScoreMaps : ValidRunValid(score_map)
    \/ ValidCheckImprovement
    \/ \E fin \in BOOLEAN, lr \in LearningRates : ValidAfterValid(fin, lr)
    \/ ValidTrainMode
    \/ ValidLog

SpecValidSteps == Init /\ [][NextValidSteps]_vars

\* train(batch) step by step, _clip_grad_norm() on its own, and configure(clip_norm)
NextClip ==
    \/ \E clip \in ClipNorms : ConfigureClip(clip)
    \/ \E gs \in GradLists : TrainBackward(gs)
    \/ TrainClip
    \/ TrainStep
    \/ ClipGradNormCall

SpecClip == Init /\ [][NextClip]_vars

(* ------------------------------------------------------------------ *)
(* Claims                                                               *)
(* ------------------------------------------------------------------ *)
\* The relative threshold as the claims state it, by the sign of best:
\* v < best*(1-0.001) for best > 0, v < best*(1+0.001) for best < 0.
BelowPositiveBest(v, best) == best > 0 /\ 1000 * v < 999 * best
BelowNegativeBest(v, best) == best < 0 /\ 1000 * v < 1001 * best

\* A call of check_improvement(score_map) returned improved and set best to v /
\* returned not improved and left best alone.
ReportsImproved(v) == call'.ret = "True" /\ best_criteria' = v
ReportsNotImproved == call'.ret = "False" /\ best_criteria' = best_criteria

\* C1 as stated: check_improvement returns improved and sets best_criteria to v
\* exactly when v < best*(1-0.001) for best > 0 or v < best*(1+0.001) for best < 0,
\* and in every other case returns not improved and leaves best_criteria unchanged.
C1_as_stated ==
    [][\A sm \in FineScoreMaps :
         (call'.op = "check_improvement" /\ CheckImprovementCall(sm)) =>
            LET v == sm[criteria] IN
            IF BelowPositiveBest(v, best_criteria) \/ BelowNegativeBest(v, best_criteria)
            THEN ReportsImproved(v)
            ELSE ReportsNotImproved]_vars

\* C1 amended: check_improvement returns improved and sets best_criteria to v
\* exactly when v < best - 0.001*|best|: v < best*(1-0.001) for best > 0,
\* v < best*(1+0.001) for best < 0, and v < 0 for best = 0; in every other case
\* it returns not improved and leaves best_criteria unchanged.
C1_check_improvement ==
    [][\A sm \in FineScoreMaps :
         (call'.op = "check_improvement" /\ CheckImprovementCall(sm)) =>
            LET v == sm[criteria] IN
            IF \/ BelowPositiveBest(v, best_criteria)
               \/ BelowNegativeBest(v, best_criteria)
               \/ (best_criteria = 0 /\ v < 0)
            THEN ReportsImproved(v)
            ELSE ReportsNotImproved]_vars

\* check_improvement has just reported an improvement below a best of 0 or less,
\* and the checkpoint it wrote is on disk.
C1_witness ==
    /\ call.op = "check_improvement"
    /\ call.ret = "True"
    /\ best_criteria < 0
    /\ save_path # None
    /\ files[save_path] # NoFile

Range(seq) == {seq[i] : i \in 1..Len(seq)}

\* The last call made a validation pass: run_valid, check_improvement and
\* scheduler.after_valid were all called.
ValidationPassRan(c) ==
    {"run_valid", "check_improvement", "scheduler.after_valid"} \subseteq Range(c.trace)
ValidationPassTouched(c) ==
    {"run_valid", "check_improvement", "scheduler.after_valid"} \cap Range(c.trace) # {}

\* C2: with validation_frequency = floor(n_train_batch / n_valid_per_epoch) > 0, a
\* call of valid() runs a validation pass exactly when
\* (current_step + 1) mod validation_frequency = 0, and runs none of it otherwise.
C2_valid_trigger ==
    [][(call'.op = "valid" /\ n_valid_per_epoch > 0
            /\ n_train_batch \div n_valid_per_epoch > 0) =>
         LET validation_frequency == n_train_batch \div n_valid_per_epoch IN
         IF (current_step + 1) % validation_frequency = 0
         THEN ValidationPassRan(call') /\ error' = NoError
         ELSE ~ValidationPassTouched(call') /\ error' = NoError]_vars

\* valid() has just run a pass at step 2 with a frequency of floor(7 / 2) = 3.
C2_witness ==
    /\ call.op = "valid"
    /\ ValidationPassRan(call)
    /\ n_train_batch = 7 /\ n_valid_per_epoch = 2
    /\ current_step = 2

\* C3: after save(epoch, step) to a configured path, a load() of that path sets
\* current_epoch and current_step to the epoch and step passed to that save and the
\* model and optimizer state (the learning rate included) to what they were at
\* that save, whatever was called in between.
C3_save_load_round_trip ==
    [][\A model_path \in Paths \cup {None} :
         (call'.op = "load" /\ error' = NoError /\ Load(model_path)) =>
            LET path == IF model_path = None THEN save_path ELSE model_path
                saved == Content(save_calls[path])
            IN  /\ current_epoch' = saved.epoch
                /\ current_step' = saved.step
                /\ model_state' = saved.model
                /\ optimizer_state' = saved.optimizer.state
                /\ learning_rate' = saved.optimizer.lr]_vars

\* A load() has just brought back step MaxStep of epoch 0, the parameters of
\* before the training step and the learning rate of before set_learning_rate(4),
\* as saved.
C3_witness ==
    /\ call.op = "load" /\ error = NoError
    /\ save_calls["a"] # NoFile
    /\ Content(save_calls["a"]).step = MaxStep
    /\ Content(save_calls["a"]).epoch = 0
    /\ Content(save_calls["a"]).model = 0
    /\ current_step = MaxStep /\ current_epoch = 0 /\ model_state = 0
    /\ learning_rate = InitLearningRate
    /\ LogLine("nmtlab", LrMessage(4)) \in Range(log_lines)

\* C5: single-device is_finished() returns the scheduler's is_finished() and leaves
\* current_epoch, current_step, best_criteria, the log lines and the configuration
\* (and the scheduler) as they were.
C5_is_finished_pure ==
    [][call'.op = "is_finished" =>
         /\ call'.ret = PyBool(sched_finished)
         /\ UNCHANGED <<current_epoch, current_step, best_criteria, log_lines,
                        cfgVars, sched_finished>>]_vars

\* is_finished() has just answered True in the middle of training.
C5_witness ==
    /\ call.op = "is_finished" /\ call.ret = "True"
    /\ current_step > 0 /\ best_criteria < InitBestCriteria

\* C6: no operation leaves best_criteria greater than it was.
C6_best_never_increases == [][best_criteria' <= best_criteria]_vars

\* A validation pass has just lowered best_criteria a second time at least.
C6_witness ==
    /\ call.op = "valid" /\ ValidationPassRan(call)
    /\ best_criteria = -1000

\* C7 as stated: neither current_step nor current_epoch ever takes a smaller value.
C7_as_stated ==
    [][current_step' >= current_step /\ current_epoch' >= current_epoch]_vars

\* C7 amended: train, valid, check_improvement, save, end_epoch, configure and
\* is_finished leave both counters as they are; begin_epoch changes only
\* current_epoch, begin_step only current_step, and load sets both to the values
\* recorded in the checkpoint; these three may lower a counter.
C7_counters_change_only_when_set ==
    [][/\ call'.op \notin {"begin_epoch", "begin_step", "load"} =>
            (current_step' = current_step /\ current_epoch' = current_epoch)
       /\ call'.op = "begin_epoch" => current_step' = current_step
       /\ call'.op = "begin_step" => current_epoch' = current_epoch
       /\ \A model_path \in Paths \cup {None} :
            (call'.op = "load" /\ Load(model_path)) =>
               LET path == IF model_path = None THEN save_path ELSE model_path IN
               IF error' = NoError
               THEN /\ current_step' = Content(files[path]).step
                    /\ current_epoch' = Content(files[path]).epoch
               ELSE current_step' = current_step /\ current_epoch' = current_epoch]_vars

\* A load() has just set the counters from a checkpoint that records step MaxStep
\* of epoch 0.
C7_witness ==
    /\ call.op = "load" /\ error = NoError
    /\ current_step = MaxStep /\ current_epoch = 0
    /\ files["a"] # NoFile
    /\ Content(files["a"]).step = MaxStep /\ Content(files["a"]).epoch = 0

\* C8 as stated: with a validation frequency of 0, valid() returns normally,
\* without a validation pass and without an error.
C8_as_stated ==
    (call.op = "valid" /\ valid_freq = 0) =>
        (error = NoError /\ ~ValidationPassTouched(call))

AllIdle == \A p \in Procs : p_pc[p] = "idle"

\* C4: in a round in which all participants call is_finished(), every participant
\* returns the same value, the root participant's scheduler decision, whatever the
\* other participants' schedulers answer.
C4_is_finished_lockstep ==
    [][(AllIn("broadcast flag") /\ AllIdle') =>
         \A p \in Procs :
            /\ p_call'[p].op = "is_finished"
            /\ p_call'[p].ret = PyBool(p_sched_finished[ROOT_RANK])]_vars

\* All participants have returned True from is_finished() although the scheduler
\* of a participant other than the root says not finished.
C4_witness ==
    /\ AllIdle
    /\ \A p \in Procs : p_call[p].op = "is_finished" /\ p_call[p].ret = "True"
    /\ \E p \in Procs : ~p_sched_finished[p]

\* The first place of the end token in a row, 1-based (0 when there is none)
FirstEos(row) ==
    IF \E i \in 1..Len(row) : row[i] = 2
    THEN CHOOSE i \in 1..Len(row) : row[i] = 2 /\ \A j \in 1..(i - 1) : row[j] # 2
    ELSE 0

\* A target row of n tokens (a leading sentinel, the reference, a trailing
\* sentinel) followed by padding
HasSentinels(row, n) ==
    /\ n >= 2
    /\ \A i \in 1..Len(row) : (row[i] > 0) = (i <= n)

\* One iteration of the loop of _compute_bleu
BleuIteration == bleu_pc = "score" /\ bleu_pc' # "score"

\* C9: when the sampled row holds the end token 2, the hypothesis of the iteration
\* is the sampled tokens strictly before the first 2, and the reference is the
\* target tokens between the leading and the trailing sentinel.
C9_truncate_at_end_token ==
    [][(BleuIteration /\ FirstEos(cur_sampled) > 0) =>
         /\ bleu_last'.out_tokens = SubSeq(cur_sampled, 1, FirstEos(cur_sampled) - 1)
         /\ \A n \in 2..Len(cur_tgt) :
               HasSentinels(cur_tgt, n) =>
                  bleu_last'.ref_tokens = SubSeq(cur_tgt, 2, n - 1)]_vars

\* The hypothesis 5 6 (of a sampled row 5 6 2) has been scored by smoothed_bleu
\* against the reference 5 5 of a four-token target.
C9_witness ==
    /\ bleu_last.branch = "eos"
    /\ bleu_last.out_tokens = <<5, 6>>
    /\ bleu_last.ref_tokens = <<5, 5>>
    /\ bleu_last.scored = "smoothed_bleu"

\* C10: an example whose hypothesis is empty after truncation (as when the first
\* sampled token is 2) gets the score 0 without a call of smoothed_bleu, the loop
\* goes on, and the mean returned counts that 0 among the scores.
C10_empty_hypothesis_scores_zero ==
    [][/\ BleuIteration =>
            /\ (cur_sampled[1] = 2 => bleu_last'.out_tokens = <<>>)
            /\ (bleu_last'.out_tokens = <<>> =>
                    /\ bleu_last'.scored = "0."
                    /\ bleus' = Append(bleus, 0)
                    /\ bleu_pc' = "for")
       /\ (bleu_pc = "mean" /\ bleu_pc' = "done") =>
            bleu_ret' = <<Sum(bleus), Len(bleus)>>]_vars

\* A batch of two rows whose first hypothesis was empty has the mean (0 + 2) / 2.
C10_witness ==
    /\ bleu_pc = "done"
    /\ bleus = <<0, 2>>
    /\ bleu_ret = <<2, 2>>

\* _clip_grad_norm() has just run: called on its own, or at its place in train()
ClipStep ==
    \/ call'.op = "_clip_grad_norm"
    \/ (train_pc = "backward" /\ train_pc' = "step")

\* C11: _clip_grad_norm is a no-op when the threshold is <= 0; otherwise each
\* parameter with a gradient is multiplied by threshold / (norm + 1e-6) exactly
\* when its own gradient norm exceeds the threshold and is left as it is when its
\* own norm is <= threshold, whatever the gradients of the other parameters; a
\* parameter without a gradient stays without one.
C11_clip_per_parameter ==
    [][ClipStep =>
         IF clip_norm <= 0
         THEN grads' = grads
         ELSE \A i \in 1..NParams :
                IF grads[i] = NoGrad
                THEN grads'[i] = NoGrad
                ELSE LET g == grads[i][1]
                         \* the norm of this gradient alone, a / b
                         a == Isqrt(NormSq(g.vec)) * g.num
                         b == g.den
                     IN  IF a > clip_norm * b
                         THEN grads'[i] = Grad(g.vec, g.num * clip_norm * b * InvEps,
                                                      g.den * (a * InvEps + b))
                         ELSE grads'[i] = grads[i]]_vars

\* With a threshold of 5, a gradient of norm 10 has been rescaled by
\* 5 / (10 + 1e-6) next to a gradient of norm 5 that was left as it was.
C11_witness ==
    /\ call.op \in {"train", "_clip_grad_norm"}
    /\ train_pc \in {"step", "idle"}
    /\ clip_norm = 5
    /\ grads # <<>>
    /\ grads[1] = Grad(<<-6, 8>>, 5 * InvEps, 10 * InvEps + 1)
    /\ grads[2] = Grad(<<3, 4>>, 1, 1)

\* C12: a configure() that follows a configure() with the same arguments leaves
\* the save path, the clip threshold, the validations per epoch, the criteria and
\* the validation frequency as the first call left them, and a configure() at any
\* point leaves current_epoch, current_step, best_criteria and the log lines as
\* they were.  (The fields hold the arguments of the last configure().)
C12_configure_idempotent ==
    [][/\ call'.op = "configure" =>
            UNCHANGED <<current_epoch, current_step, best_criteria, log_lines>>
       /\ (/\ call.op = "configure" /\ call'.op = "configure"
           /\ <<save_path, clip_norm, n_valid_per_epoch, criteria>>' =
                  <<save_path, clip_norm, n_valid_per_epoch, criteria>>) =>
            (valid_freq' = valid_freq /\ error' = NoError)]_vars

\* configure(save_path="a", n_valid_per_epoch=2, criteria="loss") has been called
\* in the middle of training, after a validation pass and a training step.
C12_witness ==
    /\ call.op = "configure" /\ error = NoError
    /\ save_path = "a" /\ n_valid_per_epoch = 2 /\ criteria = "loss"
    /\ current_epoch = MaxEpoch /\ current_step = MaxStep
    /\ best_criteria < InitBestCriteria
    /\ Len(log_lines) > Len(InitLogLines)
    /\ model_state > 0

\* The collectives of a call as C13 gives them: for valid() at a step, the broadcast
\* of the learning rate when (step + 1) mod validation_frequency = 0, then that of
\* the parameters when (step + 1) mod 30 = 0; for is_finished() the broadcast of
\* the stop flag; for begin_step() none.
ExpectedCollectives(op, step, validation_frequency) ==
    IF op = "valid"
    THEN (IF (step + 1) % validation_frequency = 0 THEN <<"hvd.broadcast(lr)">> ELSE <<>>)
         \o (IF (step + 1) % 30 = 0 THEN <<"hvd.broadcast_parameters">> ELSE <<>>)
    ELSE IF op = "is_finished" THEN <<"hvd.broadcast(flag)">>
    ELSE <<>>

IsCollective(entry) ==
    entry \in {"hvd.broadcast(lr)", "hvd.broadcast_parameters", "hvd.broadcast(flag)"}

\* The collectives participant p has issued in its current call: those that have
\* completed, and the one it is blocked in.
IssuedCollectives(p) ==
    SelectSeq(p_call[p].trace, IsCollective)
    \o (IF p_pc[p] = "broadcast lr" THEN <<"hvd.broadcast(lr)">>
        ELSE IF p_pc[p] = "broadcast_parameters" THEN <<"hvd.broadcast_parameters">>
        ELSE IF p_pc[p] = "broadcast flag" THEN <<"hvd.broadcast(flag)">>
        ELSE <<>>)

IsPrefix(a, b) == Len(a) <= Len(b) /\ a = SubSeq(b, 1, Len(a))

\* Every participant has made every call of the script and has returned.
ScriptDone == \A p \in Procs : p_pos[p] = Len(script) /\ p_pc[p] = "idle"

\* C13: when all participants run the same script of begin_step/valid/is_finished
\* calls with the same validation frequency, each participant issues in each call
\* exactly the collectives that the call and the step dictate, whatever its rank,
\* its validation outcome and its scheduler's answer, and every participant gets
\* to the end of the script: no collective is left waiting for ever.
C13_collectives_in_lockstep ==
    /\ [](\A p \in Procs :
            LET expected == ExpectedCollectives(p_call[p].op, p_step[p], p_valid_freq) IN
            /\ IsPrefix(IssuedCollectives(p), expected)
            /\ p_pc[p] = "idle" => IssuedCollectives(p) = expected)
    /\ <>ScriptDone

\* The script begin_step(29), valid(), is_finished() has been run to its end by all
\* participants with a validation frequency of 2: three collectives each.
C13_witness ==
    /\ ScriptDone
    /\ p_valid_freq = 2
    /\ script = << [op |-> "begin_step", step |-> ParamSyncPeriod - 1],
                   [op |-> "valid", step |-> 0],
                   [op |-> "is_finished", step |-> 0] >>
    /\ \E p \in Procs : ~IsRootNode(p)

\* C14 as stated: on a step where (current_step + 1) is a multiple of the
\* validation frequency, the participant of rank 0 and no other runs the
\* validation pass (run_valid, check_improvement, scheduler.after_valid) in
\* valid(), wherever the participants are placed.  (A participant is blocked in
\* the broadcast of the learning rate right after that part of valid().)
C14_as_stated ==
    \A p \in Procs :
        (p_pc # <<>> /\ p_pc[p] = "broadcast lr") =>
            /\ (p = ROOT_RANK => ValidationPassRan(p_call[p]))
            /\ (p # ROOT_RANK => ~ValidationPassTouched(p_call[p]))

\* C15 as stated: when the broadcast of the learning rate in valid() has completed
\* on all participants, every participant's learning rate is the root's as it stood
\* after the root's scheduler.after_valid, and the root's own is what it was.
C15_as_stated ==
    [][(AllIn("broadcast lr") /\ ~AllIn("broadcast lr")') =>
         /\ \A p \in Procs : p_lr'[p] = p_lr[ROOT_RANK]
         /\ p_lr'[ROOT_RANK] = p_lr[ROOT_RANK]]_vars

\* The true length of a target row: its tokens that are not padding
TrueTargetLength(row) == Cardinality({i \in 1..Len(row) : row[i] # 0})

\* The length of the reference span: the true length less the two sentinels
ReferenceSpanLength(row) ==
    IF TrueTargetLength(row) >= 2 THEN TrueTargetLength(row) - 2 ELSE 0

\* C16 as stated: when the sampled row holds no end token 2, the hypothesis of the
\* iteration is the first tokens of the sampled row, as many as the reference span
\* is long, whatever the true length of the target, below two included.
C16_as_stated ==
    [][(BleuIteration /\ FirstEos(cur_sampled) = 0) =>
         bleu_last'.out_tokens =
            SubSeq(cur_sampled, 1, ReferenceSpanLength(cur_tgt))]_vars

\* The last call was a check_improvement that reported improved, on its own or
\* within valid().
ImprovementReported(c) ==
    \/ (c.op = "check_improvement" /\ c.ret = "True")
    \/ (c.op = "valid" /\ "save" \in Range(c.trace))

\* C17: when check_improvement reports improved with a save path configured, the
\* checkpoint at that path records epoch 0 and step 0 (and the parameters as they
\* are), whatever current_epoch and current_step are; a load() of it right after
\* sets current_epoch and current_step to 0.  Without a save path no file changes.
C17_improvement_checkpoint_at_zero ==
    [][/\ ImprovementReported(call') =>
            IF save_path = None
            THEN files' = files
            ELSE /\ files'[save_path] # NoFile
                 /\ Content(files'[save_path]).epoch = 0
                 /\ Content(files'[save_path]).step = 0
                 /\ Content(files'[save_path]).model_state = model_state
       /\ (/\ ImprovementReported(call) /\ save_path # None
           /\ call'.op = "load" /\ call'.trace = <<"torch.load", save_path>>) =>
            (current_epoch' = 0 /\ current_step' = 0)]_vars

\* A validation pass at step MaxStep of epoch MaxEpoch has just reported an
\* improvement, and the checkpoint it wrote records epoch 0 and step 0.
C17_witness ==
    /\ call.op = "valid" /\ "save" \in Range(call.trace)
    /\ current_epoch = MaxEpoch /\ current_step = MaxStep
    /\ save_path = "a"
    /\ files["a"] # NoFile
    /\ Content(files["a"]).epoch = 0 /\ Content(files["a"]).step = 0

\* A save() has just run: called on its own, or by check_improvement.
SaveRan(c) == c.op = "save" \/ ImprovementReported(c)

\* C18: a save() with no save path configured changes neither a checkpoint nor a
\* sidecar; with a path configured it leaves in the sidecar of that path exactly
\* the log lines accumulated so far, in the order they were logged, and nothing
\* of what the sidecar held before; no other call changes a sidecar.
C18_sidecar_holds_log ==
    [][IF SaveRan(call')
       THEN IF save_path = None
            THEN files' = files /\ sidecars' = sidecars
            ELSE /\ sidecars'[save_path] = File(log_lines)
                 /\ files'[save_path] # NoFile
                 /\ \A q \in Paths \ {save_path} : sidecars'[q] = sidecars[q]
       ELSE sidecars' = sidecars /\ files' = files]_vars

\* A save() has just written, to the sidecar of path "a", the five lines of
\* construction and the one logged since.
C18_witness ==
    /\ call.op = "save"
    /\ save_path = "a"
    /\ Len(log_lines) = MaxLogLines
    /\ sidecars["a"] = File(log_lines)
    /\ save_calls["a"] # NoFile

\* The calls of one validation pass in the order of C19, with the checkpoint write
\* inside check_improvement when the pass improved, and with what the scheduler
\* does inside after_valid when it changes the learning rate
PassInOrder(is_improved, sets_lr) ==
    <<"model.train(False)", "run_valid", "check_improvement">>
    \o (IF is_improved = "True" THEN <<"save">> ELSE <<>>)
    \o <<"scheduler.after_valid">>
    \o (IF sets_lr THEN <<"set_learning_rate", "log">> ELSE <<>>)
    \o <<"model.train(True)", "log">>

\* C19: a triggered valid() switches the model to evaluation mode, calls run_valid,
\* then check_improvement (which alone changes best_criteria and the files, in
\* evaluation mode, before the scheduler is told), then scheduler.after_valid once
\* with this pass's decision and score map, then switches back to training mode,
\* then appends one 'valid' line, the only 'valid' line of the pass (a scheduler
\* that changes the learning rate inside after_valid adds an 'nmtlab' line there);
\* a valid() that returns normally leaves the model in training mode; and a valid()
\* on a non-triggering step has none of these effects.
C19_valid_order_of_effects ==
    [][/\ (valid_pc = "idle" /\ valid_pc' = "run_valid") =>
            (model_training /\ ~model_training' /\ current_step' = current_step
             /\ (current_step + 1) % valid_freq = 0)
       /\ (valid_pc = "idle" /\ valid_pc' = "idle" /\ call'.op = "valid"
              /\ error' = NoError) =>
            /\ (current_step + 1) % valid_freq # 0
            /\ call'.trace = <<>>
            /\ model_training'
            /\ UNCHANGED <<model_training, best_criteria, log_lines, diskVars,
                           sched_finished>>
       /\ (valid_pc # "idle" /\ <<best_criteria, diskVars>>' # <<best_criteria, diskVars>>) =>
            /\ call.trace = <<"model.train(False)", "run_valid">>
            /\ ~model_training /\ after_valid_args = <<>>
            /\ valid_locals'[1].is_improved = "True"
       /\ after_valid_args' # after_valid_args =>
            \/ after_valid_args' = <<>>
            \/ /\ after_valid_args' =
                     << <<valid_locals[1].is_improved, valid_locals[1].score_map>> >>
               /\ valid_locals[1].is_improved \in {"True", "False"}
               /\ ~model_training
       /\ (valid_pc' # "idle" /\ log_lines' # log_lines) =>
            /\ valid_pc = "after_valid"
            /\ \E lr \in LearningRates :
                  log_lines' = Append(log_lines, LogLine("nmtlab", LrMessage(lr)))
       /\ (valid_pc # "idle" /\ model_training' # model_training) =>
            (model_training' /\ Len(after_valid_args) = 1 /\ log_lines' = log_lines)
       /\ (valid_pc # "idle" /\ valid_pc' = "idle") =>
            /\ \E sets_lr \in BOOLEAN :
                  call'.trace = PassInOrder(valid_locals[1].is_improved, sets_lr)
            /\ Len(after_valid_args') = 1
            /\ model_training' /\ model_training
            /\ \E marker \in {"scores", "scores *"} :
                  log_lines' = Append(log_lines, LogLine("valid", marker))]_vars

\* A validation pass that did not improve on the best score has run to its end:
\* the scheduler was told so once and lowered the learning rate, and the model is
\* back in training mode.
C19_witness ==
    /\ call.op = "valid" /\ valid_pc = "idle"
    /\ call.trace = PassInOrder("False", TRUE)
    /\ after_valid_args # <<>>
    /\ after_valid_args[1][1] = "False"
    /\ model_training
    /\ log_lines[Len(log_lines)] = LogLine("valid", "scores")

\* C20: load() leaves best_criteria, the log lines and the configuration as they
\* were (and the files, the scheduler and the model's mode); of the trainer's
\* state it changes at most the model state, the optimizer state, current_epoch
\* and current_step.
C20_load_frame ==
    [][call'.op = "load" =>
         UNCHANGED <<best_criteria, log_lines, cfgVars, n_train_batch, diskVars,
                     sched_finished, model_training>>]_vars

\* A load() has just taken the counters and the parameters back to those of a
\* checkpoint, and best_criteria is still the score reached since construction.
C20_witness ==
    /\ call.op = "load" /\ error = NoError
    /\ best_criteria = -1000
    /\ Len(log_lines) > Len(InitLogLines)
    /\ files["a"] # NoFile
    /\ Content(files["a"]).model_state = 0 /\ model_state = 0
    /\ Content(files["a"]).epoch = MaxEpoch /\ current_epoch = MaxEpoch
====
